---- MODULE Spec2Model ----
(***************************************************************************)
(* ckb-next daemon core (src/daemon/main.c): startup in main(), the signal *)
(* bridge (sighandler / exithandler / ignore_signal) and the two-pass      *)
(* shutdown in quit().  The device table, the reset controller, the node   *)
(* exposer and the channel reader live in other files of the daemon; they  *)
(* are modelled from the written specification and are marked as such in   *)
(* the map of definitions.                                                 *)
(***************************************************************************)
EXTENDS Integers, Sequences, FiniteSets, TLC

\* ---------------------------------------------------------------- bounds
\* size of the device table (index 0 is the root controller)
DEV_MAX == 3
\* number of termination signals delivered in one run of the process
MaxSignals == 2

Slots == 1..(DEV_MAX - 1)
Signals == {"SIGTERM", "SIGINT", "SIGQUIT"}
\* results usbmain() can return: 0 is the orderly exit
UsbResults == {0, 2}
NoCode == 0 - 1

VARIABLES
    pc,         \* position of the main thread
    exitpath,   \* "none" while the process lives, else how it ended
    exitcode,   \* the exit code, NoCode while none is chosen
    result,     \* main(): int result = usbmain()
    caller,     \* who called quit(): "exithandler" or "main"
    qpass,      \* quit(): 1 = revert loop, 2 = close loop
    qi,         \* quit(): loop index i
    reset_stop, \* usb.c: _Atomic int reset_stop
    status,     \* keyboard[i].status
    lock,       \* devmutex[i]: "free" or the holder
    outcome,    \* reset controller, per slot
    late,       \* slot went EMPTY -> CONNECTING while reset_stop was set
    root,       \* node of keyboard[0]: "none", "created", "removed"
    pipe,       \* sighandler_pipe: "unset", "ok", "failed"
    handler,    \* disposition of each monitored signal
    chan,       \* signal numbers written to the channel, not yet read
    delivered,  \* monitored signals delivered so far
    warnings,   \* "already shutting down" warnings printed
    badwrites,  \* writes of sighandler to an unset channel
    log,        \* what quit() has issued, in order
    runs,       \* number of times quit() was entered
    usr2handler,     \* disposition of SIGUSR2
    usr2,            \* SIGUSR2 signals delivered so far
    ignored_devices, \* usb.c: the list filled from --ignore=<vid>:<pid>
    given,           \* the --ignore pairs processed so far, in order
    ts,              \* the struct timespec handed to timespec_add
    tcall            \* the last call of timespec_add: the timespec before, the argument

vars == <<pc, exitpath, exitcode, result, caller, qpass, qi, reset_stop, status,
          lock, outcome, late, root, pipe, handler, chan, delivered,
          warnings, badwrites, log, runs, usr2handler, usr2, ignored_devices,
          given, ts, tcall>>

mainvars == <<pc, exitpath, exitcode, result, caller, qpass, qi>>
slotvars == <<status, lock, outcome, late>>
sigvars  == <<handler, chan, delivered, warnings, badwrites>>
usr2vars == <<usr2handler, usr2>>
argvars  == <<ignored_devices, given>>
timevars == <<ts, tcall>>
auxvars  == <<usr2vars, argvars, timevars>>

Alive == exitpath = "none"

Ev(op, i) == [op |-> op, slot |-> i]

\* the state at process start, but for the timespec
InitProcess ==
    /\ pc = "start"
    /\ exitpath = "none"
    /\ exitcode = NoCode
    /\ result = NoCode
    /\ caller = "none"
    /\ qpass = 0
    /\ qi = 0
    /\ reset_stop = 0
    /\ status = [i \in Slots |-> "EMPTY"]
    /\ lock = [i \in Slots |-> "free"]
    /\ outcome = [i \in Slots |-> "idle"]
    /\ late = [i \in Slots |-> FALSE]
    /\ root = "none"
    /\ pipe = "unset"
    /\ handler = [s \in Signals |-> "default"]
    /\ chan = <<>>
    /\ delivered = 0
    /\ warnings = 0
    /\ badwrites = 0
    /\ log = <<>>
    /\ runs = 0
    /\ usr2handler = "default"
    /\ usr2 = 0
    /\ ignored_devices = [j \in 0..(DEV_MAX - 1) |-> <<0, 0>>]
    /\ given = <<>>
    /\ tcall = [sec |-> 0, nsec |-> 0, ns |-> 0, n |-> 0]

Init ==
    /\ InitProcess
    /\ ts = [sec |-> 0, nsec |-> 0]

\* the process ends: every thread stops
Exit(path, code) ==
    /\ exitpath' = path
    /\ exitcode' = code
    /\ pc' = "done"

\* ------------------------------------------------------------ timespec_add()
\* nanoseconds in a second
NSEC == 1000000000
\* number of calls of timespec_add in one run
MaxAdds == 2
\* the timespecs and the arguments the calls are tried on
TimeSecs == {0, 5}
TimeNsecs == {0, 1, 500000000, 999999999}
NsArgs == {-1100000000, -1000000000, -999999999, -1, 0, 1, 999999999,
           1000000000, 1100000000}

\* a / b and a % b of C: the quotient is truncated towards zero and the
\* remainder has the sign of a
CDiv(a, b) == IF a >= 0 THEN a \div b ELSE -((-a) \div b)
CMod(a, b) == a - b * CDiv(a, b)

\* a mutation of timespec_add: tv_nsec is not added to the argument first
timespec_add_NoCarry(t, nanoseconds) ==
    [sec  |-> t.sec + CDiv(nanoseconds, NSEC),
     nsec |-> CMod(nanoseconds, NSEC)]

\* nanoseconds += tv_nsec; tv_sec += nanoseconds / 1000000000;
\* tv_nsec = nanoseconds % 1000000000
timespec_add(t, nanoseconds) ==
    LET n == nanoseconds + t.nsec
    IN  [sec  |-> t.sec + CDiv(n, NSEC),
         nsec |-> CMod(n, NSEC)]

\* one call timespec_add(&ts, ns)
TimespecAdd(ns) ==
    /\ tcall.n < MaxAdds
    /\ ts' = timespec_add(ts, ns)
    /\ tcall' = [sec |-> ts.sec, nsec |-> ts.nsec, ns |-> ns, n |-> tcall.n + 1]
    /\ UNCHANGED <<mainvars, reset_stop, slotvars, root, pipe, sigvars, log, runs,
                   usr2vars, argvars>>

InitTime ==
    /\ InitProcess
    /\ \E s \in TimeSecs, n \in TimeNsecs : ts = [sec |-> s, nsec |-> n]

NextTime == \E ns \in NsArgs : TimespecAdd(ns)

SpecTime == InitTime /\ [][NextTime]_vars

\* ------------------------------------------------------------ main(): startup
\* --help / --version anywhere on the command line: print and return 0
MainHelp ==
    /\ Alive /\ pc = "start"
    /\ \E help \in BOOLEAN :
        IF help THEN Exit("help", 0)
        ELSE pc' = "pidcheck" /\ UNCHANGED <<exitpath, exitcode>>
    /\ UNCHANGED <<result, caller, qpass, qi, reset_stop, slotvars, root, pipe,
                   sigvars, log, runs>>
    /\ UNCHANGED auxvars

\* is_pid_running(): the daemon is already running => return 1
MainPidCheck ==
    /\ Alive /\ pc = "pidcheck"
    /\ \E running \in BOOLEAN :
        IF running THEN Exit("running", 1)
        ELSE pc' = "args" /\ UNCHANGED <<exitpath, exitcode>>
    /\ UNCHANGED <<result, caller, qpass, qi, reset_stop, slotvars, root, pipe,
                   sigvars, log, runs>>
    /\ UNCHANGED auxvars

\* vendor and product ids (ushort) that --ignore arguments name
Ids == {0, 1}
\* number of --ignore arguments on one command line: one more than fits
MaxArgs == DEV_MAX + 1

\* for(j = 0; j < DEV_MAX; j++): skip the entries in use, write the first
\* free one and break
RECURSIVE IgnoreLoop(_, _, _, _)
IgnoreLoop(list, j, vid, pid) ==
    IF j >= DEV_MAX THEN list
    ELSE IF list[j][1] # 0 \/ list[j][2] # 0 THEN IgnoreLoop(list, j + 1, vid, pid)
    ELSE [list EXCEPT ![j] = <<vid, pid>>]

\* a mutation of IgnoreAdd: the entries in use are not skipped
IgnoreAddNoSkip(list, vid, pid) == [list EXCEPT ![0] = <<vid, pid>>]

\* --ignore=<vid>:<pid>: add the vid/pid to the list
IgnoreAdd(list, vid, pid) == IgnoreLoop(list, 0, vid, pid)

\* one --ignore=<vid>:<pid> argument of the argument loop
ArgIgnore(vid, pid) ==
    /\ Alive /\ pc = "args"
    /\ Len(given) < MaxArgs
    /\ ignored_devices' = IgnoreAdd(ignored_devices, vid, pid)
    /\ given' = Append(given, <<vid, pid>>)
    /\ UNCHANGED <<mainvars, reset_stop, slotvars, root, pipe, sigvars, log, runs,
                   usr2vars, timevars>>

\* the argument loop; --search=... returns 0 (found) or 1 (not found); then the
\* UID check: not root and forceroot => fatal, exit(0)
MainArgs ==
    /\ Alive /\ pc = "args"
    /\ \E search \in {"none", "found", "notfound"}, isroot \in BOOLEAN, forceroot \in BOOLEAN :
        IF search # "none"
        THEN Exit("search", IF search = "found" THEN 0 ELSE 1)
        ELSE IF ~isroot /\ forceroot
        THEN Exit("uid", 0)
        ELSE pc' = "mkroot" /\ UNCHANGED <<exitpath, exitcode>>
    /\ UNCHANGED <<result, caller, qpass, qi, reset_stop, slotvars, root, pipe,
                   sigvars, log, runs>>
    /\ UNCHANGED auxvars

\* mkdevpath(keyboard): 0 on success, the root node then exists
mkdevpath(ok) == IF ok THEN "created" ELSE "none"

\* memset(keyboard, 0, ...); mkdevpath(keyboard)
MainMkRoot ==
    /\ Alive /\ pc = "mkroot"
    /\ \E ok \in BOOLEAN : root' = mkdevpath(ok)
    /\ status' = [i \in Slots |-> "EMPTY"]
    /\ pc' = "socketpair"
    /\ UNCHANGED <<exitpath, exitcode, result, caller, qpass, qi, reset_stop,
                   lock, outcome, late, pipe, sigvars, log, runs>>
    /\ UNCHANGED auxvars

\* a mutation of MainSocketpair: the handlers are installed whether or not the
\* channel exists
MainSocketpairAlways ==
    /\ Alive /\ pc = "socketpair"
    /\ \E ok \in BOOLEAN : pipe' = IF ok THEN "ok" ELSE "failed"
    /\ pc' = "sig_SIGTERM"
    /\ UNCHANGED <<exitpath, exitcode, result, caller, qpass, qi, reset_stop,
                   slotvars, root, sigvars, log, runs>>
    /\ UNCHANGED auxvars

\* socketpair(AF_LOCAL, SOCK_STREAM, 0, sighandler_pipe) != -1 ? install : warn
MainSocketpair ==
    /\ Alive /\ pc = "socketpair"
    /\ \E ok \in BOOLEAN :
        /\ pipe' = IF ok THEN "ok" ELSE "failed"
        /\ pc' = IF ok THEN "sig_SIGTERM" ELSE "sigusr2"
    /\ UNCHANGED <<exitpath, exitcode, result, caller, qpass, qi, reset_stop,
                   slotvars, root, sigvars, log, runs>>
    /\ UNCHANGED auxvars

\* the order of the three signal() calls, in main() and in exithandler()
NextSig(s) == IF s = "SIGTERM" THEN "SIGINT" ELSE IF s = "SIGINT" THEN "SIGQUIT" ELSE "end"

\* signal(s, sighandler), one call per step
MainInstall(s) ==
    /\ Alive /\ pc = "sig_" \o s
    /\ handler' = [handler EXCEPT ![s] = "sighandler"]
    /\ pc' = IF NextSig(s) = "end" THEN "sigusr2" ELSE "sig_" \o NextSig(s)
    /\ UNCHANGED <<exitpath, exitcode, result, caller, qpass, qi, reset_stop,
                   slotvars, root, pipe, chan, delivered, warnings, badwrites,
                   log, runs>>
    /\ UNCHANGED auxvars

\* a mutation of MainSigaction: SIGUSR2 is routed like the monitored signals
MainSigactionSighandler ==
    /\ Alive /\ pc = "sigusr2"
    /\ usr2handler' = "sighandler"
    /\ pc' = "clock"
    /\ UNCHANGED <<exitpath, exitcode, result, caller, qpass, qi, reset_stop,
                   slotvars, root, pipe, sigvars, log, runs, usr2, argvars,
                   timevars>>

\* sigaction(SIGUSR2, &new_action, NULL) with sa_handler = nullhandler
MainSigaction ==
    /\ Alive /\ pc = "sigusr2"
    /\ usr2handler' = "nullhandler"
    /\ pc' = "clock"
    /\ UNCHANGED <<exitpath, exitcode, result, caller, qpass, qi, reset_stop,
                   slotvars, root, pipe, sigvars, log, runs, usr2, argvars,
                   timevars>>

\* init_cond_monotonic() fails => fatal, exit(1); else usbmain() starts
MainClock ==
    /\ Alive /\ pc = "clock"
    /\ \E failed \in BOOLEAN :
        IF failed THEN Exit("clock", 1)
        ELSE pc' = "usbmain" /\ UNCHANGED <<exitpath, exitcode>>
    /\ UNCHANGED <<result, caller, qpass, qi, reset_stop, slotvars, root, pipe,
                   sigvars, log, runs>>
    /\ UNCHANGED auxvars

\* ------------------------------------------------------------ usbmain()
\* the reader of the channel, on the main thread inside usbmain(): it takes
\* the next signal number and calls exithandler(type)
UsbReadSignal ==
    /\ Alive /\ pc = "usbmain"
    /\ chan # <<>>
    /\ chan' = Tail(chan)
    /\ pc' = "eh_SIGTERM"
    /\ UNCHANGED <<exitpath, exitcode, result, caller, qpass, qi, reset_stop,
                   slotvars, root, pipe, handler, delivered, warnings, badwrites,
                   log, runs>>
    /\ UNCHANGED auxvars

\* usbmain() returns: int result = usbmain()
UsbReturn ==
    /\ Alive /\ pc = "usbmain"
    /\ \E r \in UsbResults : result' = r
    /\ caller' = "main"
    /\ pc' = "q_flag"
    /\ UNCHANGED <<exitpath, exitcode, qpass, qi, reset_stop, slotvars, root,
                   pipe, sigvars, log, runs>>
    /\ UNCHANGED auxvars

\* ------------------------------------------------------------ exithandler()
\* signal(s, ignore_signal), one call per step; after the third, printf and
\* the call of quit()
ExitHandlerSwap(s) ==
    /\ Alive /\ pc = "eh_" \o s
    /\ handler' = [handler EXCEPT ![s] = "ignore_signal"]
    /\ pc' = IF NextSig(s) = "end" THEN "q_flag" ELSE "eh_" \o NextSig(s)
    /\ caller' = IF NextSig(s) = "end" THEN "exithandler" ELSE caller
    /\ UNCHANGED <<exitpath, exitcode, result, qpass, qi, reset_stop, slotvars,
                   root, pipe, chan, delivered, warnings, badwrites, log, runs>>
    /\ UNCHANGED auxvars

\* a mutation of ExitHandlerExit: exithandler() returns to the reader instead
\* of ending the process
ExitHandlerReturn ==
    /\ Alive /\ pc = "q_ret" /\ caller = "exithandler"
    /\ pc' = "usbmain"
    /\ UNCHANGED <<exitpath, exitcode, result, caller, qpass, qi, reset_stop,
                   slotvars, root, pipe, sigvars, log, runs>>
    /\ UNCHANGED auxvars

\* quit() has returned to exithandler(): exit(0)
ExitHandlerExit ==
    /\ Alive /\ pc = "q_ret" /\ caller = "exithandler"
    /\ Exit("signal", 0)
    /\ UNCHANGED <<result, caller, qpass, qi, reset_stop, slotvars, root, pipe,
                   sigvars, log, runs>>
    /\ UNCHANGED auxvars

\* a mutation of MainReturn: main() returns 0 whatever usbmain() returned
MainReturnZero ==
    /\ Alive /\ pc = "q_ret" /\ caller = "main"
    /\ Exit("main", 0)
    /\ UNCHANGED <<result, caller, qpass, qi, reset_stop, slotvars, root, pipe,
                   sigvars, log, runs>>
    /\ UNCHANGED auxvars

\* quit() has returned to main(): return result
MainReturn ==
    /\ Alive /\ pc = "q_ret" /\ caller = "main"
    /\ Exit("main", result)
    /\ UNCHANGED <<result, caller, qpass, qi, reset_stop, slotvars, root, pipe,
                   sigvars, log, runs>>
    /\ UNCHANGED auxvars

\* ------------------------------------------------------------ quit()
\* a mutation of Active: the status test of the loops is dropped
ActiveAlways(st) == TRUE

\* status == DEV_STATUS_CONNECTING || status == DEV_STATUS_CONNECTED
Active(st) == st = "CONNECTING" \/ st = "CONNECTED"

\* revertusb(keyboard + i): the device goes back to stock input mode; the slot
\* keeps its status
revertusb(i) ==
    /\ log' = Append(log, Ev("revert", i))
    /\ UNCHANGED <<status, outcome, late>>

\* closeusb(keyboard + i): handle closed, node removed, the slot is EMPTY
closeusb(i) ==
    /\ log' = Append(log, Ev("close", i))
    /\ status' = [status EXCEPT ![i] = "EMPTY"]
    /\ outcome' = [outcome EXCEPT ![i] = "idle"]
    /\ late' = [late EXCEPT ![i] = FALSE]

\* rmdevpath(keyboard): the root node is removed if it exists
rmdevpath(r) == IF r = "created" THEN "removed" ELSE r

\* a mutation of PassOp: the two loops in the other order
PassOpSwapped(p) == IF p = 1 THEN "close" ELSE "revert"

\* what a loop of quit() issues: the first loop reverts, the second closes
PassOp(p) == IF p = 1 THEN "revert" ELSE "close"

\* a mutation of QuitSetFlag: reset_stop is left as it is
QuitNoFlag ==
    /\ Alive /\ pc = "q_flag"
    /\ runs' = runs + 1
    /\ log' = Append(log, Ev("flag", 0))
    /\ qpass' = 1 /\ qi' = 1
    /\ pc' = IF 1 < DEV_MAX THEN "q_lock" ELSE "q_rmroot"
    /\ UNCHANGED <<exitpath, exitcode, result, caller, reset_stop, slotvars, root,
                   pipe, sigvars>>
    /\ UNCHANGED auxvars

\* quit() is entered: reset_stop = 1, then the first loop starts at i = 1
QuitSetFlag ==
    /\ Alive /\ pc = "q_flag"
    /\ runs' = runs + 1
    /\ reset_stop' = 1
    /\ log' = Append(log, Ev("flag", 0))
    /\ qpass' = 1 /\ qi' = 1
    /\ pc' = IF 1 < DEV_MAX THEN "q_lock" ELSE "q_rmroot"
    /\ UNCHANGED <<exitpath, exitcode, result, caller, slotvars, root, pipe,
                   sigvars>>
    /\ UNCHANGED auxvars

\* a mutation of QuitLock: the loop goes on without taking the lock
QuitLockSkip ==
    /\ Alive /\ pc = "q_lock"
    /\ pc' = "q_visit"
    /\ UNCHANGED <<exitpath, exitcode, result, caller, qpass, qi, reset_stop,
                   slotvars, root, pipe, sigvars, log, runs>>
    /\ UNCHANGED auxvars

\* queued_mutex_lock(devmutex + i)
QuitLock ==
    /\ Alive /\ pc = "q_lock"
    /\ lock[qi] = "free"
    /\ lock' = [lock EXCEPT ![qi] = "quit"]
    /\ pc' = "q_visit"
    /\ UNCHANGED <<exitpath, exitcode, result, caller, qpass, qi, reset_stop,
                   status, outcome, late, root, pipe, sigvars, log, runs>>
    /\ UNCHANGED auxvars

\* if(status == CONNECTING || status == CONNECTED) revertusb / closeusb
QuitVisit ==
    /\ Alive /\ pc = "q_visit"
    /\ IF Active(status[qi])
       THEN IF PassOp(qpass) = "revert" THEN revertusb(qi) ELSE closeusb(qi)
       ELSE UNCHANGED <<log, status, outcome, late>>
    /\ pc' = "q_unlock"
    /\ UNCHANGED <<exitpath, exitcode, result, caller, qpass, qi, reset_stop,
                   lock, root, pipe, sigvars, runs>>
    /\ UNCHANGED auxvars

\* a mutation of QuitUnlock: the lock is not released
QuitUnlockKeep ==
    /\ Alive /\ pc = "q_unlock"
    /\ IF qi + 1 < DEV_MAX
       THEN qi' = qi + 1 /\ qpass' = qpass /\ pc' = "q_lock"
       ELSE IF qpass = 1
       THEN qi' = 1 /\ qpass' = 2 /\ pc' = "q_lock"
       ELSE qi' = qi + 1 /\ qpass' = qpass /\ pc' = "q_rmroot"
    /\ UNCHANGED <<exitpath, exitcode, result, caller, reset_stop, slotvars,
                   root, pipe, sigvars, log, runs>>
    /\ UNCHANGED auxvars

\* queued_mutex_unlock(devmutex + i); i++; the loop test; after the first loop
\* the second starts at i = 1, after the second the root controller is closed
QuitUnlock ==
    /\ Alive /\ pc = "q_unlock"
    /\ lock' = [lock EXCEPT ![qi] = "free"]
    /\ IF qi + 1 < DEV_MAX
       THEN qi' = qi + 1 /\ qpass' = qpass /\ pc' = "q_lock"
       ELSE IF qpass = 1
       THEN qi' = 1 /\ qpass' = 2 /\ pc' = "q_lock"
       ELSE qi' = qi + 1 /\ qpass' = qpass /\ pc' = "q_rmroot"
    /\ UNCHANGED <<exitpath, exitcode, result, caller, reset_stop, status,
                   outcome, late, root, pipe, sigvars, log, runs>>
    /\ UNCHANGED auxvars

\* ckb_info("Closing root controller"); rmdevpath(keyboard)
QuitRmRoot ==
    /\ Alive /\ pc = "q_rmroot"
    /\ root' = rmdevpath(root)
    /\ log' = Append(log, Ev("rmroot", 0))
    /\ pc' = "q_usbkill"
    /\ UNCHANGED <<exitpath, exitcode, result, caller, qpass, qi, reset_stop,
                   slotvars, pipe, sigvars, runs>>
    /\ UNCHANGED auxvars

\* a mutation of QuitUsbKill: the flag is cleared once the devices are closed
QuitUsbKillClearFlag ==
    /\ Alive /\ pc = "q_usbkill"
    /\ log' = Append(log, Ev("usbkill", 0))
    /\ reset_stop' = 0
    /\ pc' = "q_ret"
    /\ UNCHANGED <<exitpath, exitcode, result, caller, qpass, qi, slotvars, root,
                   pipe, sigvars, runs>>
    /\ UNCHANGED auxvars

\* usbkill(); quit() returns
QuitUsbKill ==
    /\ Alive /\ pc = "q_usbkill"
    /\ log' = Append(log, Ev("usbkill", 0))
    /\ pc' = "q_ret"
    /\ UNCHANGED <<exitpath, exitcode, result, caller, qpass, qi, reset_stop,
                   slotvars, root, pipe, sigvars, runs>>
    /\ UNCHANGED auxvars

\* ------------------------------------------------------------ signals
\* sighandler(type): write(sighandler_pipe[SIGHANDLER_SENDER], &type, ...)
sighandler(s) ==
    /\ IF pipe = "ok"
       THEN chan' = Append(chan, s) /\ UNCHANGED badwrites
       ELSE badwrites' = badwrites + 1 /\ UNCHANGED chan
    /\ UNCHANGED <<mainvars, warnings>>

\* ignore_signal(type): prints the warning and returns
ignore_signal(s) ==
    /\ warnings' = warnings + 1
    /\ UNCHANGED <<mainvars, chan, badwrites>>

\* a monitored signal is delivered to the process: the installed handler
\* runs; with the default disposition the process is killed
SignalDeliver(s) ==
    /\ Alive
    /\ delivered < MaxSignals
    /\ delivered' = delivered + 1
    /\ IF handler[s] = "sighandler" THEN sighandler(s)
       ELSE IF handler[s] = "ignore_signal" THEN ignore_signal(s)
       ELSE /\ Exit("killed", NoCode)
            /\ UNCHANGED <<result, caller, qpass, qi, chan, warnings, badwrites>>
    /\ UNCHANGED <<reset_stop, slotvars, root, pipe, handler, log, runs>>
    /\ UNCHANGED auxvars

\* nullhandler(s): prints "[I] Caught internal signal SIGUSR2" and returns
nullhandler ==
    UNCHANGED <<mainvars, chan, warnings, badwrites>>

\* SIGUSR2 is delivered to the process: the installed handler runs; with the
\* default disposition the process is killed.  Deliveries of all signals
\* together are bounded by MaxSignals.
Usr2Deliver ==
    /\ Alive
    /\ delivered + usr2 < MaxSignals
    /\ usr2' = usr2 + 1
    /\ IF usr2handler = "nullhandler" THEN nullhandler
       ELSE IF usr2handler = "sighandler" THEN sighandler("SIGUSR2")
       ELSE /\ Exit("killed", NoCode)
            /\ UNCHANGED <<result, caller, qpass, qi, chan, warnings, badwrites>>
    /\ UNCHANGED <<reset_stop, slotvars, root, pipe, handler, delivered, log,
                   runs, usr2handler, argvars, timevars>>

\* ------------------------------------------------------------ hotplug, reset
\* the USB subsystem and its threads run from the start of usbmain()
Started == pc \notin {"start", "pidcheck", "args", "mkroot", "socketpair",
                      "sig_SIGTERM", "sig_SIGINT", "sig_SIGQUIT", "sigusr2",
                      "clock", "done"}

\* a device is detected on a free slot: EMPTY -> CONNECTING under the slot's
\* lock, and its reset sequence starts
HotConnect(i) ==
    /\ Alive /\ Started
    /\ lock[i] = "free"
    /\ status[i] = "EMPTY"
    /\ status' = [status EXCEPT ![i] = "CONNECTING"]
    /\ outcome' = [outcome EXCEPT ![i] = "running"]
    /\ late' = [late EXCEPT ![i] = (reset_stop = 1)]
    /\ UNCHANGED <<mainvars, reset_stop, lock, root, pipe, sigvars, log, runs>>
    /\ UNCHANGED auxvars

\* the outcome of one reset step begun with the flag read as f
ResetOutcome(f, hw) ==
    IF f = 1 THEN "aborted"
    ELSE IF hw = "error" THEN "hwerror"
    ELSE IF hw = "last" THEN "success"
    ELSE "running"

\* one step of the reset sequence of slot i, without the slot's lock
ResetStep(i) ==
    /\ Alive /\ Started
    /\ status[i] = "CONNECTING" /\ outcome[i] = "running"
    /\ \E hw \in {"error", "more", "last"} :
        outcome' = [outcome EXCEPT ![i] = ResetOutcome(reset_stop, hw)]
    /\ UNCHANGED <<mainvars, reset_stop, status, lock, late, root, pipe, sigvars,
                   log, runs>>
    /\ UNCHANGED auxvars

\* a successful reset commits CONNECTED under the slot's lock, if the slot is
\* still CONNECTING
ResetCommit(i) ==
    /\ Alive /\ Started
    /\ lock[i] = "free"
    /\ status[i] = "CONNECTING" /\ outcome[i] = "success"
    /\ status' = [status EXCEPT ![i] = "CONNECTED"]
    /\ outcome' = [outcome EXCEPT ![i] = "idle"]
    /\ UNCHANGED <<mainvars, reset_stop, lock, late, root, pipe, sigvars, log, runs>>
    /\ UNCHANGED auxvars

\* a connected device is unplugged: CONNECTED -> EMPTY under the slot's lock
HotDisconnect(i) ==
    /\ Alive /\ Started
    /\ lock[i] = "free"
    /\ status[i] = "CONNECTED"
    /\ status' = [status EXCEPT ![i] = "EMPTY"]
    /\ late' = [late EXCEPT ![i] = FALSE]
    /\ UNCHANGED <<mainvars, reset_stop, lock, outcome, root, pipe, sigvars, log, runs>>
    /\ UNCHANGED auxvars

\* ------------------------------------------------------------ specification
Next ==
    \/ MainHelp
    \/ MainPidCheck
    \/ MainArgs
    \/ MainMkRoot
    \/ MainSocketpair
    \/ \E s \in Signals : MainInstall(s)
    \/ MainSigaction
    \/ MainClock
    \/ UsbReadSignal
    \/ UsbReturn
    \/ \E s \in Signals : ExitHandlerSwap(s)
    \/ ExitHandlerExit
    \/ MainReturn
    \/ QuitSetFlag
    \/ QuitLock
    \/ QuitVisit
    \/ QuitUnlock
    \/ QuitRmRoot
    \/ QuitUsbKill
    \/ \E s \in Signals : SignalDeliver(s)
    \/ \E i \in Slots : HotConnect(i)
    \/ \E i \in Slots : ResetStep(i)
    \/ \E i \in Slots : ResetCommit(i)
    \/ \E i \in Slots : HotDisconnect(i)

Spec == Init /\ [][Next]_vars

\* the program with SIGUSR2 delivered to it as well
NextUsr2 ==
    \/ Next
    \/ Usr2Deliver

SpecUsr2 == Init /\ [][NextUsr2]_vars

\* main() with --ignore arguments, up to the call of usbmain()
NextArgs ==
    \/ MainHelp
    \/ MainPidCheck
    \/ \E vid \in Ids, pid \in Ids : ArgIgnore(vid, pid)
    \/ MainArgs
    \/ MainMkRoot
    \/ MainSocketpair
    \/ \E s \in Signals : MainInstall(s)
    \/ MainSigaction
    \/ MainClock

SpecArgs == Init /\ [][NextArgs]_vars

\* the steps of the main thread: main(), the reader in usbmain(),
\* exithandler() and quit()
MainThread ==
    \/ MainHelp
    \/ MainPidCheck
    \/ MainArgs
    \/ MainMkRoot
    \/ MainSocketpair
    \/ \E s \in Signals : MainInstall(s)
    \/ MainSigaction
    \/ MainClock
    \/ UsbReadSignal
    \/ UsbReturn
    \/ \E s \in Signals : ExitHandlerSwap(s)
    \/ ExitHandlerExit
    \/ MainReturn
    \/ QuitSetFlag
    \/ QuitLock
    \/ QuitVisit
    \/ QuitUnlock
    \/ QuitRmRoot
    \/ QuitUsbKill

\* fair scheduling: the main thread is not stopped for ever while it can
\* take a step (every call it makes returns, a free lock is granted)
FairSpec == Init /\ [][Next]_vars /\ WF_vars(MainThread)

TypeOK ==
    /\ reset_stop \in {0, 1}
    /\ \A i \in Slots : status[i] \in {"EMPTY", "CONNECTING", "CONNECTED"}
    /\ \A i \in Slots : lock[i] \in {"free", "quit"}
    /\ root \in {"none", "created", "removed"}
    /\ pipe \in {"unset", "ok", "failed"}
    /\ delivered \in 0..MaxSignals
    /\ Len(chan) <= delivered

\* ------------------------------------------------------------ properties
LogIdx == 1..Len(log)
Issued(op, i) == \E p \in LogIdx : log[p] = Ev(op, i)

\* one complete run of quit(): the flag first, both loops run to the end of
\* the table, then the root node and usbkill()
FullShutdown ==
    /\ runs = 1
    /\ reset_stop = 1
    /\ Len(log) >= 3
    /\ log[1] = Ev("flag", 0)
    /\ log[Len(log) - 1] = Ev("rmroot", 0)
    /\ log[Len(log)] = Ev("usbkill", 0)
    /\ qpass = 2 /\ qi = DEV_MAX
    /\ root # "created"

\* C1: quit() runs at most once in the life of the process, and exactly once
\* when the process ends through exithandler() or through the return of
\* main(), whichever of the two triggers came first and whatever is still
\* waiting in the channel.
C1_QuitOnce ==
    /\ runs <= 1
    /\ exitpath \in {"signal", "main"} => runs = 1
    /\ runs = 1 => caller \in {"exithandler", "main"}

\* C1 witness: shutdown ran once from a signal while a second signal was still
\* waiting in the channel
C1_Witness == runs = 1 /\ exitpath = "signal" /\ chan # <<>>

\* C2: within the run of quit() no revert is issued after a close, and a
\* close is only issued in the second loop, after the first loop has visited
\* every slot.
C2_RevertsBeforeCloses ==
    /\ \A p, q \in LogIdx :
        p < q => ~(log[p].op = "close" /\ log[q].op = "revert")
    /\ (\E p \in LogIdx : log[p].op = "close") => qpass = 2

\* C2 witness: a revert on one slot and a close on another in one run
C2_Witness ==
    \E a, b \in Slots : a # b /\ Issued("revert", a) /\ Issued("close", b) /\ a > b

\* C3 (as claimed): every close that quit() issues on a slot follows a revert
\* issued on the same slot earlier in the run.
C3_CloseHasRevert ==
    \A q \in LogIdx :
        log[q].op = "close" =>
            \E p \in LogIdx : p < q /\ log[p] = Ev("revert", log[q].slot)

\* C4 (as claimed): at the step that removes the root node every slot
\* 1..DEV_MAX-1 is EMPTY.
C4_RootRemovedLast ==
    [][(pc = "q_rmroot" /\ pc' = "q_usbkill") =>
            \A i \in Slots : status[i] = "EMPTY"]_vars

\* C5 (as claimed): of the monitored signals that reach a handler, only the
\* first is passed on; every later one is answered by the warning of
\* ignore_signal, and shutdown runs once.
C5_SecondSignalWarned ==
    /\ runs <= 1
    /\ (exitpath # "killed" /\ delivered >= 1) => warnings = delivered - 1

\* C6: reset_stop is 0 until quit() is entered, it is 1 from the first
\* statement of quit() on, before any revert or close is issued, and once 1
\* it never is 0 again.
C6_FlagStaysSet ==
    /\ [](/\ reset_stop \in {0, 1}
          /\ reset_stop = 1 => runs >= 1
          /\ runs >= 1 => reset_stop = 1
          /\ log # <<>> => (reset_stop = 1 /\ log[1] = Ev("flag", 0))
          /\ \A p \in LogIdx : p > 1 => log[p].op # "flag")
    /\ [][reset_stop = 1 => reset_stop' = 1]_vars

\* C6 witness: the flag is set and a revert and a close have been issued
C6_Witness ==
    /\ reset_stop = 1
    /\ \E i \in Slots : Issued("revert", i) /\ Issued("close", i)

\* C7: a reset step begun with the flag set ends aborted (never success, never
\* a step further), and a slot that went EMPTY -> CONNECTING with the flag set
\* stays CONNECTING, running or aborted, and never is CONNECTED.
C7_ResetAbortsAfterFlag ==
    /\ [](\A i \in Slots :
            late[i] => /\ status[i] = "CONNECTING"
                       /\ outcome[i] \in {"running", "aborted"})
    /\ [][\A i \in Slots :
            (/\ reset_stop = 1
             /\ status[i] = "CONNECTING" /\ outcome[i] = "running"
             /\ status'[i] = "CONNECTING" /\ outcome'[i] # "running")
            => outcome'[i] = "aborted"]_vars

\* C7 witness: a slot connected after the flag was set has aborted its reset
C7_Witness == \E i \in Slots : late[i] /\ outcome[i] = "aborted"

\* C8 (as claimed): whenever the core ends the process, the exit code is the
\* result of usbmain().
C8_ExitCodeIsUsbResult ==
    exitpath \in {"signal", "uid", "clock", "running", "main"} => exitcode = result

\* C8 (amended): when main() returns after usbmain(), the exit code is the
\* result of usbmain() and one full shutdown has run; exithandler() exits 0
\* after one full shutdown without usbmain() having returned; the privilege
\* check exits 0; the clock failure and the already-running check exit 1.
C8_ExitCodes ==
    /\ exitpath = "main" =>
        exitcode = result /\ result \in UsbResults /\ FullShutdown
    /\ exitpath = "signal" =>
        exitcode = 0 /\ result = NoCode /\ FullShutdown
    /\ exitpath = "uid" => exitcode = 0 /\ runs = 0
    /\ exitpath \in {"clock", "running"} => exitcode = 1 /\ runs = 0

\* C8 witness: main() returned the non-zero result of usbmain()
C8_Witness == exitpath = "main" /\ exitcode = 2 /\ result = 2

\* C9 (as claimed): at a fatal startup exit (clock failure, already running)
\* the root node does not exist and every slot is EMPTY.
C9_FatalBeforeDeviceState ==
    exitpath \in {"clock", "running"} =>
        root = "none" /\ \A i \in Slots : status[i] = "EMPTY"

\* C10: when socketpair() fails, no handler is installed for any monitored
\* signal, nothing is written to the channel or to its unset descriptors,
\* startup goes on to the clock check and usbmain(), and the return of
\* usbmain() is followed by one full shutdown.
C10_NoChannel ==
    pipe = "failed" =>
        /\ \A s \in Signals : handler[s] = "default"
        /\ chan = <<>> /\ badwrites = 0 /\ warnings = 0
        /\ pc \in {"sigusr2", "clock", "usbmain", "q_flag", "q_lock", "q_visit", "q_unlock",
                   "q_rmroot", "q_usbkill", "q_ret", "done"}
        /\ pc = "done" => exitpath \in {"clock", "killed", "main"}
        /\ exitpath = "main" => FullShutdown /\ caller = "main"

\* C10 witness: without a channel, usbmain() returned and shutdown completed
C10_Witness == pipe = "failed" /\ exitpath = "main" /\ Issued("close", 1)

\* C11: a visit of quit() to a slot that is EMPTY issues neither a revert nor a
\* close and changes nothing of any slot: the log, the statuses, the reset
\* outcomes and the root node are as before, and the lock stays held until
\* the unlock that follows.
C11_EmptySlotUntouched ==
    [][(pc = "q_visit" /\ pc' = "q_unlock" /\ status[qi] = "EMPTY") =>
            /\ log' = log
            /\ status' = status
            /\ outcome' = outcome
            /\ late' = late
            /\ root' = root
            /\ lock' = lock]_vars

\* C11 witness: both loops have visited a table that was EMPTY throughout;
\* nothing but the flag has been issued
C11_Witness ==
    /\ pc = "q_unlock" /\ qpass = 2 /\ qi = DEV_MAX - 1
    /\ \A i \in Slots : status[i] = "EMPTY"
    /\ log = <<Ev("flag", 0)>>

StatusValues == {"EMPTY", "CONNECTING", "CONNECTED"}
LegalMoves == {<<"EMPTY", "CONNECTING">>, <<"CONNECTING", "CONNECTED">>,
               <<"CONNECTED", "EMPTY">>}

\* C12 (as claimed): every change of a slot's status is EMPTY -> CONNECTING,
\* CONNECTING -> CONNECTED or CONNECTED -> EMPTY, and the status is one of the
\* three values.
C12_OnlyLegalMoves ==
    [][\A i \in Slots :
        /\ status'[i] \in StatusValues
        /\ status'[i] # status[i] => <<status[i], status'[i]>> \in LegalMoves]_vars

\* C12 (amended): as claimed, except that the close loop of quit() also takes
\* a slot that is still CONNECTING to EMPTY, at its visit of that slot and
\* under that slot's lock; nothing else moves a slot from CONNECTING to EMPTY.
C12_LegalMovesOrShutdownClose ==
    [][\A i \in Slots :
        /\ status[i] \in StatusValues /\ status'[i] \in StatusValues
        /\ status'[i] # status[i] =>
            \/ <<status[i], status'[i]>> \in LegalMoves
            \/ /\ <<status[i], status'[i]>> = <<"CONNECTING", "EMPTY">>
               /\ pc = "q_visit" /\ qpass = 2 /\ qi = i /\ lock[i] = "quit"]_vars

\* C12 witness: quit() closed a slot on which it had issued no revert: the slot
\* began connecting after the revert loop had passed it, with the flag set, so
\* it was CONNECTING when it was closed
C12_Witness ==
    \E i \in Slots :
        Issued("close", i) /\ ~Issued("revert", i) /\ status[i] = "EMPTY"

Count(op, i) == Cardinality({p \in LogIdx : log[p] = Ev(op, i)})

\* C13 (as claimed): node operations happen exactly once per lifecycle edge:
\* quit() never removes the root node twice nor closes a slot twice, and when
\* the program ends the process, a root node that was created has been
\* removed, by exactly one rmdevpath(keyboard).
C13_NodeOpsOnce ==
    /\ Count("rmroot", 0) <= 1
    /\ \A i \in Slots : Count("close", i) <= 1
    /\ (exitpath \notin {"none", "killed"} /\ root # "none") =>
            (root = "removed" /\ Count("rmroot", 0) = 1)

HeldByQuit == {i \in Slots : lock[i] = "quit"}

\* C14: quit() reads the status of slot i and issues its revert or close on
\* slot i only while it holds the lock of slot i, and a hotplug or reset
\* thread changes the status of a slot only while quit() does not hold that
\* slot's lock.
C14_VisitUnderLock ==
    /\ [](pc \in {"q_visit", "q_unlock"} => lock[qi] = "quit")
    /\ [][\A i \in Slots :
            (log' # log /\ log'[Len(log')].slot = i) =>
                (lock[i] = "quit" /\ lock'[i] = "quit")]_vars
    /\ [][\A i \in Slots :
            (status'[i] # status[i] /\ pc' = pc) => lock[i] = "free"]_vars

\* C14 witness: quit() has just closed a slot and still holds its lock
C14_Witness ==
    /\ pc = "q_unlock" /\ lock[qi] = "quit"
    /\ log[Len(log)] = Ev("close", qi)

\* C15: quit() holds at most one slot lock, the one of the slot it visits, and
\* none outside a visit while the process lives (none when it removes the
\* root node); it locks the slots in ascending order 1..DEV_MAX-1 in each loop and never index 0.
C15_OneLockAscending ==
    /\ [](/\ Cardinality(HeldByQuit) <= 1
          /\ pc \in {"q_visit", "q_unlock"} => HeldByQuit = {qi}
          /\ (Alive /\ pc \notin {"q_visit", "q_unlock"}) => HeldByQuit = {}
          /\ pc \in {"q_lock", "q_visit", "q_unlock"} => qi \in 1..(DEV_MAX - 1))
    /\ [][(pc = "q_unlock" /\ pc' = "q_lock") =>
            \/ qi' = qi + 1 /\ qpass' = qpass
            \/ qi = DEV_MAX - 1 /\ qi' = 1 /\ qpass = 1 /\ qpass' = 2]_vars
    /\ [][\A i \in Slots :
            (lock[i] = "free" /\ lock'[i] = "quit") => (i = qi /\ qi' = qi)]_vars

\* C15 witness: both loops are done, a slot was reverted and closed, and
\* quit() is about to remove the root node with no lock held
C15_Witness ==
    /\ pc = "q_rmroot" /\ HeldByQuit = {}
    /\ Issued("revert", DEV_MAX - 1) /\ Issued("close", DEV_MAX - 1)

\* the number of monitored signals that sighandler() has written to the channel
Written ==
    delivered - warnings - badwrites - (IF exitpath = "killed" THEN 1 ELSE 0)

ShutdownDone == exitpath \in {"signal", "main"} /\ FullShutdown

PastSigaction ==
    pc \notin {"start", "pidcheck", "args", "mkroot", "socketpair",
               "sig_SIGTERM", "sig_SIGINT", "sig_SIGQUIT", "sigusr2"}

\* everything but the two delivery counters and the channel
NoSignalEffect ==
    UNCHANGED <<mainvars, reset_stop, slotvars, root, pipe, handler, warnings,
                badwrites, log, runs, usr2handler, argvars, timevars>>

\* C17 (as claimed): a delivery of SIGUSR2, at any time, changes nothing (no
\* write to the channel, no flag, no status, no shutdown run, no end of the
\* process); a delivery of a monitored signal before shutdown has begun only
\* appends the signal's number to the channel.
C17_SignalsFrame ==
    /\ [][usr2' # usr2 => (NoSignalEffect /\ chan' = chan /\ delivered' = delivered)]_vars
    /\ [][(delivered' # delivered /\ runs = 0) =>
            /\ NoSignalEffect /\ usr2' = usr2
            /\ \E s \in Signals : chan' = Append(chan, s)]_vars

\* C17 (amended): once main() has installed nullhandler, a delivery of SIGUSR2
\* changes nothing; once sighandler is installed for all monitored signals
\* and before shutdown has begun, a delivery of a monitored signal only
\* appends the signal's number to the channel.
C17_SignalsFrameOnceInstalled ==
    /\ [][(usr2' # usr2 /\ PastSigaction) =>
            (NoSignalEffect /\ chan' = chan /\ delivered' = delivered)]_vars
    /\ [][(/\ delivered' # delivered /\ runs = 0
           /\ \A s \in Signals : handler[s] = "sighandler") =>
            /\ NoSignalEffect /\ usr2' = usr2
            /\ \E s \in Signals : chan' = Append(chan, s)]_vars

\* C17 witness: SIGUSR2 was delivered twice and the process is alive, in the
\* middle of a shutdown that a monitored signal did not start
C17_Witness ==
    /\ usr2 >= 2 /\ Alive /\ pc = "q_visit" /\ caller = "main"
    /\ chan = <<>> /\ delivered = 0

ListIdx == 0..(DEV_MAX - 1)

\* the pairs of a sequence of arguments other than 0000:0000, in order
RECURSIVE NonZero(_)
NonZero(seq) ==
    IF seq = <<>> THEN <<>>
    ELSE IF Head(seq) = <<0, 0>> THEN NonZero(Tail(seq))
    ELSE <<Head(seq)>> \o NonZero(Tail(seq))

\* the list holds the first DEV_MAX pairs of seq, in order, then free entries
Holds(seq) ==
    /\ DOMAIN ignored_devices = ListIdx
    /\ \A j \in ListIdx :
        ignored_devices[j] = IF j < Len(seq) THEN seq[j + 1] ELSE <<0, 0>>

\* C18 (as claimed): the list holds the pairs given, in the order given, up
\* to DEV_MAX of them, and nothing else.
C18_ListHoldsGiven == Holds(given)

\* C18 (amended): the list holds the pairs given other than 0000:0000, in the
\* order given, up to DEV_MAX of them, and nothing else; no entry in use is
\* ever written again, and the list does not change once the argument loop
\* is over.
C18_ListHoldsNonZeroGiven ==
    /\ [](Holds(NonZero(given)))
    /\ [][\A j \in ListIdx :
            ignored_devices[j] # <<0, 0>> =>
                ignored_devices'[j] = ignored_devices[j]]_vars
    /\ [][pc # "args" => ignored_devices' = ignored_devices]_vars

\* C18 witness: more than DEV_MAX pairs were given, the list is full, the last
\* pair was dropped, and startup has gone on to usbmain()
C18_Witness ==
    /\ pc = "usbmain"
    /\ Len(NonZero(given)) = DEV_MAX + 1
    /\ \A j \in ListIdx : ignored_devices[j] # <<0, 0>>
    /\ given[DEV_MAX + 1] # given[DEV_MAX]

InRange(n) == 0 <= n /\ n < NSEC

\* the change of tv_sec * 10^9 + tv_nsec made by the last call
TotalChange == (ts.sec - tcall.sec) * NSEC + (ts.nsec - tcall.nsec)

\* C19 (as claimed): after a call on a timespec with tv_nsec in [0, 10^9),
\* tv_nsec is in [0, 10^9) and the total has changed by the argument.
C19_NormalisedSum ==
    (tcall.n > 0 /\ InRange(tcall.nsec)) =>
        (InRange(ts.nsec) /\ TotalChange = tcall.ns)

\* C19 (amended): after a call on a timespec with tv_nsec in [0, 10^9), the
\* total has changed by the argument; tv_nsec is in [0, 10^9) when the
\* argument plus the old tv_nsec is not negative, and in (-10^9, 0] when it
\* is negative, where it is 0 only for a multiple of 10^9.
C19_SumExactRangeForNonNegative ==
    (tcall.n > 0 /\ InRange(tcall.nsec)) =>
        /\ TotalChange = tcall.ns
        /\ tcall.ns + tcall.nsec >= 0 => InRange(ts.nsec)
        /\ tcall.ns + tcall.nsec < 0 =>
            /\ 0 - NSEC < ts.nsec /\ ts.nsec <= 0
            /\ ts.nsec = 0 <=> CMod(tcall.ns + tcall.nsec, NSEC) = 0

\* C19 witness: a negative argument carried a second away and left tv_nsec in
\* range: 5 s + 0 ns minus 10^9 ns is 4 s + 0 ns
C19_Witness ==
    /\ tcall.n > 0 /\ InRange(tcall.nsec)
    /\ tcall.ns < 0 /\ ts.sec = tcall.sec - 1 /\ ts.nsec = 0

====
